---- MODULE Spec2Model ----
(***************************************************************************)
(* generate_realistic_cheating_data (src/project_yeta_ah.py, lines 24-184) *)
(* as a state machine: one action per statement group of the function.     *)
(*                                                                         *)
(* Real numbers are kept in hundredths (1.0 is 100).  A cell of a table is *)
(* <<v>> (the number v; the 0/1 label is kept as it is) or <<>> (NaN).     *)
(* The Mersenne Twister stream that                                        *)
(* seed 42 selects is a fixed sequence nobody chose: `tape` holds the part *)
(* of it that has been read so far, a read past its end picks the next     *)
(* value, and a read before its end replays it.  A value of the stream is  *)
(* a percentile u in 0..99 of the unit interval; normal, uniform, random   *)
(* and choice turn it into the value they return.                          *)
(***************************************************************************)
EXTENDS Integers, Sequences, FiniteSets, TLC

\* Bounds of the exploration.
MaxSamples == 2
RatioDen == 4
MaxOtherDraws == 1
MaxImproverSamples == 4
MaxPatternSamples == 2

VARIABLES
  n_samples,        \* argument: [type, twice], the value is twice/2
  cheater_ratio,    \* argument: numerator over RatioDen
  pc,               \* position in the function body
  run,              \* "first" or "second" call of the function
  rng,              \* the process-wide random stream: [stream, pos]
  tape,             \* the values of the seed-42 stream read so far
  build,            \* what the installed libraries do where versions differ:
                    \* IsolationForest on NaN input, np.percentile of nothing
  other,            \* draws made by other code between the two calls
  n_cheaters, n_non_cheaters,
  non_cheaters, cheaters, cheaters_cols, cheater_types,
  data, columns,    \* the combined frame: rows and column names
  i,                \* loop index
  subject_scores, past_performance, sudden_improvers,
  past_base,        \* past_performance as line 118 computes it
  time_base, skew_draws,
  ability_groups, avg_group_exam,
  anomaly_scores, final_data, final_cols,
  outcome,          \* "running", "returned" or the exception raised
  touched,          \* cheater-only statements executed: <<step, row>>
  drawn,            \* the random draws made, in order: <<generator, line>>
  first             \* what the first call ended with

vars == <<n_samples, cheater_ratio, pc, run, rng, tape, build, other,
          n_cheaters, n_non_cheaters, non_cheaters, cheaters, cheaters_cols,
          cheater_types, data, columns, i, subject_scores, past_performance,
          past_base,
          sudden_improvers, time_base, skew_draws, ability_groups,
          avg_group_exam, anomaly_scores, final_data, final_cols, outcome,
          touched, drawn, first>>

locals == <<n_cheaters, n_non_cheaters, non_cheaters, cheaters, cheaters_cols,
            cheater_types, data, columns, i, subject_scores, past_performance,
          past_base,
            sudden_improvers, time_base, skew_draws, ability_groups,
            avg_group_exam, anomaly_scores, final_data, final_cols>>

----------------------------------------------------------------------------
\* Numbers and cells

NaN == <<>>
F(v) == <<v>>
V(c) == c[1]
IsNaN(c) == c = NaN

Abs(x) == IF x < 0 THEN -x ELSE x
Max(a, b) == IF a < b THEN b ELSE a
Min(a, b) == IF a < b THEN a ELSE b

FAdd(a, b) == IF IsNaN(a) \/ IsNaN(b) THEN NaN ELSE F(V(a) + V(b))
FSub(a, b) == IF IsNaN(a) \/ IsNaN(b) THEN NaN ELSE F(V(a) - V(b))
FHalf(a) == IF IsNaN(a) THEN NaN ELSE F(V(a) \div 2)
FNeg(a) == IF IsNaN(a) THEN NaN ELSE F(-V(a))

RECURSIVE SumTo(_, _)
SumTo(f, n) == IF n = 0 THEN 0 ELSE f[n] + SumTo(f, n - 1)
Sum(s) == SumTo(s, Len(s))

RECURSIVE SqrtBetween(_, _, _)
SqrtBetween(v, lo, hi) ==
  IF lo >= hi THEN lo
  ELSE LET mid == (lo + hi + 1) \div 2
       IN IF mid * mid <= v THEN SqrtBetween(v, mid, hi)
                            ELSE SqrtBetween(v, lo, mid - 1)
ISqrt(v) == SqrtBetween(v, 0, Min(v, 46340))

\* int(a/b) of Python for b > 0: truncation toward zero.
Trunc(a, b) == IF a >= 0 THEN a \div b ELSE -((-a) \div b)

\* round(a/b) of Python 3 for b > 0: to the nearest integer, a half to the
\* even neighbour.
PyRound(a, b) ==
  LET fl == a \div b
      twiceRem == 2 * (a - fl * b)
  IN IF twiceRem < b THEN fl
     ELSE IF twiceRem > b THEN fl + 1
     ELSE IF fl % 2 = 0 THEN fl ELSE fl + 1

----------------------------------------------------------------------------
\* The random streams

\* The values the exploration lets position p of a stream take when it is
\* read for `site`.  Ability values differ from one position to the next,
\* as the draws of a continuous distribution do.
DrawSet(site, p) ==
  CASE site = "ability" -> {10 + (p % 20), 60 + (p % 20)}
    [] site = "type"    -> {25, 65, 90}
    [] site = "time1"   -> {20, 60}
    [] site = "time2"   -> {50, 90}
    [] OTHER            -> {50}

Avail(g, p, site) ==
  IF g.stream = "s42" /\ p <= Len(tape) THEN {tape[p]} ELSE DrawSet(site, p)

\* The sequences of values that reading Len(sites) values from generator g
\* can return.
RECURSIVE VecFrom(_, _, _)
VecFrom(g, p, sites) ==
  IF sites = <<>> THEN {<<>>}
  ELSE {<<u>> \o rest : u \in Avail(g, p + 1, Head(sites)),
                        rest \in VecFrom(g, p + 1, Tail(sites))}
Vec(g, sites) == VecFrom(g, g.pos, sites)

\* The generator and the tape after generator g returned the values us.
Advance(g, us) ==
  IF g.stream = "s42" THEN [g EXCEPT !.pos = @ + Len(us)] ELSE g
Recorded(g, us) ==
  IF g.stream = "s42"
  THEN [j \in 1..Max(Len(tape), g.pos + Len(us)) |->
          IF j <= Len(tape) THEN tape[j] ELSE us[j - g.pos]]
  ELSE tape

Rep(site, k) == [j \in 1..k |-> site]

\* What a call that reads k values from `generator` in source line `line`
\* adds to the record of the draws: nothing when it reads no value.
Drew(generator, line, k) == IF k > 0 THEN <<<<generator, line>>>> ELSE <<>>

\* np.random.normal(mu, sd), np.random.uniform(lo, hi), np.random.random()
\* and np.random.choice(3 names, p=[0.5, 0.3, 0.2]) on the stream value u.
Normal(mu, sd, u) == mu + (sd * (u - 50) * 4) \div 100
Uniform(lo, hi, u) == lo + ((hi - lo) * u) \div 100
Random(u) == u
ChoiceType(u) ==
  IF u < 50 THEN "coursework_advantage"
  ELSE IF u < 80 THEN "exam_advantage" ELSE "consistent"

\* The stream left where it stands: the call without its np.random.seed(42).
NoReseed == rng

\* np.random.seed(42), line 40.
SeededState == [stream |-> "s42", pos |-> 0]

----------------------------------------------------------------------------
\* Sizes

IntN(v) == [type |-> "int", twice |-> 2 * v]
\* numpy refuses a size that is not an integer (TypeError) or is negative
\* (ValueError).
SizeError(size) ==
  IF size.type = "float" THEN "TypeError"
  ELSE IF size.twice < 0 THEN "ValueError" ELSE "none"
Count(size) == size.twice \div 2

\* round() where the code truncates.
NCheatersRounded(n, r) == PyRound(n.twice * r, 2 * RatioDen)

\* int(n_samples * cheater_ratio), line 43.
NCheaters(n, r) == Trunc(n.twice * r, 2 * RatioDen)
\* n_samples - n_cheaters, line 44.
NNonCheaters(n, c) == [type |-> n.type, twice |-> n.twice - 2 * c]

----------------------------------------------------------------------------
\* Frames

SetCell(frame, row, col, v) ==
  [r \in 1..Len(frame) |->
     IF r = row THEN [c \in DOMAIN frame[r] \cup {col} |->
                        IF c = col THEN v ELSE frame[r][c]]
     ELSE IF col \in DOMAIN frame[r] THEN frame[r]
     ELSE [c \in DOMAIN frame[r] \cup {col} |->
             IF c = col THEN NaN ELSE frame[r][c]]]
AddCol(cols, col) ==
  IF \E j \in 1..Len(cols) : cols[j] = col THEN cols ELSE Append(cols, col)
SetColumn(frame, col, vals) ==
  [r \in 1..Len(frame) |->
     [c \in DOMAIN frame[r] \cup {col} |->
        IF c = col THEN vals[r] ELSE frame[r][c]]]
Column(frame, col) == [r \in 1..Len(frame) |-> frame[r][col]]
ColSet(cols) == {cols[j] : j \in 1..Len(cols)}

----------------------------------------------------------------------------
\* Inputs and the initial state

SampleArgs ==
  {IntN(v) : v \in -1..MaxSamples}
    \cup {[type |-> "float", twice |-> t] : t \in {3, 4}}
RatioArgs == -1..(RatioDen + 1)

ValidInput ==
  /\ n_samples.type = "int" /\ n_samples.twice >= 2
  /\ cheater_ratio \in 0..RatioDen

Fresh ==
  /\ n_cheaters = 0 /\ n_non_cheaters = IntN(0)
  /\ non_cheaters = <<>> /\ cheaters = <<>> /\ cheaters_cols = <<>>
  /\ cheater_types = <<>>
  /\ data = <<>> /\ columns = <<>> /\ i = 0
  /\ subject_scores = <<>> /\ past_performance = <<>> /\ past_base = <<>>
  /\ sudden_improvers = <<>> /\ time_base = <<>> /\ skew_draws = <<>>
  /\ ability_groups = <<>> /\ avg_group_exam = <<>>
  /\ anomaly_scores = <<>> /\ final_data = <<>> /\ final_cols = <<>>

Init ==
  /\ n_samples \in SampleArgs
  /\ cheater_ratio \in RatioArgs
  /\ pc = "seed" /\ run = "first"
  /\ rng = [stream |-> "os", pos |-> 0]
  /\ tape = <<>> /\ other = 0
  /\ build = [forest |-> "unknown", percentile |-> "unknown"]
  /\ Fresh
  /\ outcome = "running" /\ touched = {} /\ drawn = <<>>
  /\ first = [outcome |-> "none", table |-> <<>>, cols |-> <<>>]

Raise(err) ==
  /\ outcome' = err
  /\ pc' = "done"

args == <<n_samples, cheater_ratio>>
ctl == <<run, other, first>>
sizes == <<n_cheaters, n_non_cheaters>>
parts == <<non_cheaters, cheaters, cheaters_cols, cheater_types>>
history == <<subject_scores, past_performance, sudden_improvers, past_base>>
skew == <<time_base, skew_draws>>
peers == <<ability_groups, avg_group_exam>>
result == <<anomaly_scores, final_data, final_cols>>

----------------------------------------------------------------------------
\* The function body

\* Line 40.
Seed ==
  /\ pc = "seed"
  /\ rng' = SeededState
  /\ pc' = "split"
  /\ UNCHANGED <<args, ctl, tape, build, locals, outcome, touched, drawn>>

\* Lines 43-44.
Split ==
  /\ pc = "split"
  /\ n_cheaters' = NCheaters(n_samples, cheater_ratio)
  /\ n_non_cheaters' = NNonCheaters(n_samples, NCheaters(n_samples, cheater_ratio))
  /\ pc' = "non_cheaters"
  /\ UNCHANGED <<args, ctl, rng, tape, build, parts, data, columns, i,
                 history, skew, peers, result, outcome, touched, drawn>>

NonCheaterRow(ua, uc, ue) ==
  LET ability == Normal(0, 100, ua)
  IN [ability |-> F(ability), cheater |-> F(0),
      coursework_raw |-> F(ability + Normal(0, 80, uc)),
      exam_raw |-> F(ability + Normal(0, 80, ue))]

\* The draws of lines 47-55 with the ability drawn last.
AbilityDrawnLast(k) ==
  Drew("global", 54, k) \o Drew("global", 55, k) \o Drew("global", 49, k)

\* The draws of lines 47-55 for k non-cheaters: ability (line 49), then the
\* noise of coursework_raw (line 54) and of exam_raw (line 55).
NonCheaterDraws(k) ==
  Drew("global", 49, k) \o Drew("global", 54, k) \o Drew("global", 55, k)

\* Lines 47-55.
GenNonCheaters ==
  /\ pc = "non_cheaters"
  /\ IF SizeError(n_non_cheaters) # "none"
     THEN /\ Raise(SizeError(n_non_cheaters))
          /\ UNCHANGED <<rng, tape, non_cheaters, drawn>>
     ELSE LET k == Count(n_non_cheaters)
          IN \E us \in Vec(rng, Rep("ability", k) \o Rep("noise", 2 * k)) :
               /\ non_cheaters' =
                    [j \in 1..k |-> NonCheaterRow(us[j], us[k + j], us[2 * k + j])]
               /\ rng' = Advance(rng, us)
               /\ tape' = Recorded(rng, us)
               /\ drawn' = drawn \o NonCheaterDraws(k)
               /\ pc' = "cheaters"
               /\ UNCHANGED outcome
  /\ UNCHANGED <<args, ctl, build, sizes, cheaters, cheaters_cols,
                 cheater_types, data, columns, i, history, skew, peers,
                 result, touched>>

CheaterRow(ua, uc) ==
  LET ability == Normal(-50, 100, ua)
  IN [ability |-> F(ability), cheater |-> F(1),
      coursework_raw |-> F(ability + Normal(0, 80, uc))]

\* Lines 58-65.
GenCheaters ==
  /\ pc = "cheaters"
  /\ IF SizeError(IntN(n_cheaters)) # "none"
     THEN /\ Raise(SizeError(IntN(n_cheaters)))
          /\ UNCHANGED <<rng, tape, cheaters, cheaters_cols, drawn>>
     ELSE \E us \in Vec(rng, Rep("ability", n_cheaters) \o Rep("noise", n_cheaters)) :
            /\ cheaters' = [j \in 1..n_cheaters |->
                              CheaterRow(us[j], us[n_cheaters + j])]
            /\ cheaters_cols' = <<"ability", "cheater", "coursework_raw">>
            /\ rng' = Advance(rng, us)
            /\ tape' = Recorded(rng, us)
            /\ drawn' = drawn \o Drew("global", 60, n_cheaters)
                                 \o Drew("global", 65, n_cheaters)
            /\ pc' = "types"
            /\ UNCHANGED outcome
  /\ UNCHANGED <<args, ctl, build, sizes, non_cheaters, cheater_types,
                 data, columns, i, history, skew, peers, result, touched>>

\* Lines 73-74.
AssignTypes ==
  /\ pc = "types"
  /\ \E us \in Vec(rng, Rep("type", n_cheaters)) :
       /\ cheater_types' = [j \in 1..n_cheaters |-> ChoiceType(us[j])]
       /\ rng' = Advance(rng, us)
       /\ tape' = Recorded(rng, us)
  /\ drawn' = drawn \o Drew("global", 73, n_cheaters)
  /\ i' = 1
  /\ pc' = "pattern"
  /\ UNCHANGED <<args, ctl, build, sizes, non_cheaters, cheaters,
                 cheaters_cols, data, columns, history, skew, peers, result,
                 outcome, touched>>

\* The draws of one iteration of the loop of lines 77-92, in order.
PatternSites(cheater_type) ==
  CASE cheater_type = "coursework_advantage" -> <<"offset", "noise">>
    [] cheater_type = "exam_advantage" -> <<"noise", "offset">>
    [] OTHER -> <<"offset", "noise", "noise">>

\* The loop of lines 77-92 with a boost of its own for each raw score of a
\* `consistent` cheater.
PatternOwnBoosts(cheater_type, ability, us) ==
  CASE cheater_type = "coursework_advantage" ->
         [coursework_raw |-> FAdd(ability, F(Uniform(100, 250, us[1]))),
          exam_raw |-> FAdd(ability, F(Normal(0, 80, us[2])))]
    [] cheater_type = "exam_advantage" ->
         [coursework_raw |-> FAdd(ability, F(Normal(0, 80, us[1]))),
          exam_raw |-> FAdd(ability, F(Uniform(150, 300, us[2])))]
    [] OTHER ->
         [coursework_raw |-> FAdd(ability, F(Uniform(100, 200, us[1]))),
          exam_raw |-> FAdd(ability, F(Uniform(100, 200, us[2])))]

\* The raw scores one iteration of the loop of lines 77-92 assigns.
Pattern(cheater_type, ability, us) ==
  CASE cheater_type = "coursework_advantage" ->
         [coursework_raw |-> FAdd(ability, F(Uniform(100, 250, us[1]))),
          exam_raw |-> FAdd(ability, F(Normal(0, 80, us[2])))]
    [] cheater_type = "exam_advantage" ->
         [coursework_raw |-> FAdd(ability, F(Normal(0, 80, us[1]))),
          exam_raw |-> FAdd(ability, F(Uniform(150, 300, us[2])))]
    [] OTHER ->
         LET both_boost == F(Uniform(100, 200, us[1]))
         IN [coursework_raw |->
               FAdd(FAdd(ability, both_boost), F(Normal(0, 20, us[2]))),
             exam_raw |->
               FAdd(FAdd(ability, both_boost), F(Normal(0, 20, us[3])))]

\* One iteration of the loop of lines 77-92.
ApplyPattern ==
  /\ pc = "pattern"
  /\ i <= Len(cheater_types)
  /\ \E us \in Vec(rng, PatternSites(cheater_types[i])) :
       LET scores == Pattern(cheater_types[i], cheaters[i].ability, us)
       IN /\ cheaters' = SetCell(SetCell(cheaters, i, "coursework_raw",
                                         scores.coursework_raw),
                                 i, "exam_raw", scores.exam_raw)
          /\ rng' = Advance(rng, us)
          /\ tape' = Recorded(rng, us)
  /\ cheaters_cols' = AddCol(cheaters_cols, "exam_raw")
  /\ drawn' = drawn \o Drew("global", 77, Len(PatternSites(cheater_types[i])))
  /\ touched' = touched \cup {<<"pattern", i>>}
  /\ i' = i + 1
  /\ UNCHANGED <<args, ctl, pc, build, sizes, non_cheaters, cheater_types,
                 data, columns, history, skew, peers, result, outcome>>

\* pd.concat([a, b]).reset_index(drop=True), line 95: the rows of a then
\* those of b, over the union of the columns; a cell of a column the row's
\* frame lacks is NaN.
RECURSIVE UnionCols(_, _)
UnionCols(ca, cb) ==
  IF cb = <<>> THEN ca ELSE UnionCols(AddCol(ca, Head(cb)), Tail(cb))
Widen(row, cols) ==
  [c \in ColSet(cols) |-> IF c \in DOMAIN row THEN row[c] ELSE NaN]
Concat(a, ca, b, cb) ==
  [r \in 1..(Len(a) + Len(b)) |->
     Widen(IF r <= Len(a) THEN a[r] ELSE b[r - Len(a)], UnionCols(ca, cb))]

NonCheaterCols == <<"ability", "cheater", "coursework_raw", "exam_raw">>

\* Lines 95-101, when the loop of line 77 is over.
Combine ==
  /\ pc = "pattern"
  /\ i > Len(cheater_types)
  /\ data' = Concat(non_cheaters, NonCheaterCols, cheaters, cheaters_cols)
  /\ columns' = UnionCols(NonCheaterCols, cheaters_cols)
  /\ IF SizeError(n_samples) # "none"
     THEN /\ Raise(SizeError(n_samples))
          /\ UNCHANGED <<i, subject_scores>>
     ELSE /\ subject_scores' = <<>>
          /\ i' = 1
          /\ pc' = "subject"
          /\ UNCHANGED outcome
  /\ UNCHANGED <<args, ctl, rng, tape, build, sizes, parts,
                 past_performance, sudden_improvers, past_base, skew, peers,
                 result,
                 touched, drawn>>

\* np.std(values) of numpy: the population standard deviation.
PopStd(vals) ==
  LET m == Len(vals)
      S == Sum(vals)
      Q == Sum([j \in 1..m |-> (m * vals[j] - S) * (m * vals[j] - S)])
  IN ISqrt(Q \div m) \div m

\* The scores of one student in the 5 subjects, lines 104-113.
SubjectScores(row, us) ==
  IF row.cheater = F(0)
  THEN [j \in 1..5 |-> V(row.ability) + Normal(0, 100, us[j])]
  ELSE IF Random(us[1]) < 70
       THEN [j \in 1..5 |-> V(row.ability) + Normal(0, 40, us[j + 1])]
       ELSE [j \in 1..5 |-> V(row.ability) + Normal(0, 100, us[j + 1])]

\* One iteration of the loop of lines 103-113.
SubjectRow ==
  /\ pc = "subject"
  /\ i <= Count(n_samples)
  /\ IF i > Len(data)
     THEN /\ Raise("KeyError")
          /\ UNCHANGED <<rng, tape, subject_scores, i, drawn>>
     ELSE /\ \E us \in Vec(rng, IF data[i].cheater = F(0)
                                THEN Rep("subject", 5)
                                ELSE <<"flag">> \o Rep("subject", 5)) :
               /\ subject_scores' = Append(subject_scores, SubjectScores(data[i], us))
               /\ rng' = Advance(rng, us)
               /\ tape' = Recorded(rng, us)
          /\ drawn' = drawn \o Drew("global", 103, 5)
          /\ i' = i + 1
          /\ UNCHANGED <<pc, outcome>>
  /\ UNCHANGED <<args, ctl, build, sizes, parts, data, columns,
                 past_performance, sudden_improvers, past_base, skew, peers,
                 result,
                 touched>>

\* data[data['cheater'] == 1].index, line 122.
RECURSIVE IndicesFrom(_, _)
IndicesFrom(frame, r) ==
  IF r > Len(frame) THEN <<>>
  ELSE (IF frame[r].cheater = F(1) THEN <<r>> ELSE <<>>) \o IndicesFrom(frame, r + 1)
CheaterIndices(frame) == IndicesFrom(frame, 1)

\* RandomState.permutation: the shuffle of numpy, from the last position
\* down to the second, each swapped with a position drawn at or below it.
RECURSIVE Shuffle(_, _, _)
Shuffle(perm, t, us) ==
  IF t < 2 THEN perm
  ELSE LET j == 1 + (us[1] * t) \div 100
           swapped == [k \in 1..Len(perm) |->
                         IF k = t THEN perm[j] ELSE IF k = j THEN perm[t] ELSE perm[k]]
       IN Shuffle(swapped, t - 1, Tail(us))

\* int(len(cheater_indices) * 0.6), line 123.
ImproverCount(len) == Trunc(6 * len, 10)

\* The choice with replacement: every improver drawn on its own.
ChooseWithReplacement(indices, us) ==
  [k \in 1..ImproverCount(Len(indices)) |->
     indices[1 + (us[k] * Len(indices)) \div 100]]

\* np.random.choice(cheater_indices, size, replace=False), line 123.
ChooseImprovers(indices, us) ==
  SubSeq(Shuffle(indices, Len(indices), us), 1, ImproverCount(Len(indices)))

\* past_performance after the loop of lines 124-125; us holds one draw per
\* sudden improver, in the order of sudden_improvers.
Penalized(past, improvers, us) ==
  [r \in 1..Len(past) |->
     IF \E k \in 1..Len(improvers) : improvers[k] = r
     THEN F(V(past[r]) - Sum([k \in 1..Len(improvers) |->
                                IF improvers[k] = r
                                THEN Uniform(50, 150, us[k]) ELSE 0]))
     ELSE past[r]]

\* Lines 115-127, when the loop of line 103 is over.
History ==
  /\ pc = "subject"
  /\ i > Count(n_samples)
  /\ LET n == Count(n_samples)
         indices == CheaterIndices(data)
         c == Len(indices)
         size == ImproverCount(c)
     IN \E us \in Vec(rng, Rep("noise", n) \o Rep("shuffle", Max(c - 1, 0))
                             \o Rep("penalty", size)) :
          LET past == [r \in 1..n |->
                         FAdd(data[r].ability, F(Normal(0, 50, us[r])))]
              current == [r \in 1..n |->
                            FHalf(FAdd(data[r].coursework_raw, data[r].exam_raw))]
              improvers == ChooseImprovers(indices, SubSeq(us, n + 1, n + Max(c - 1, 0)))
              after == Penalized(past, improvers, SubSeq(us, n + Max(c - 1, 0) + 1, Len(us)))
          IN /\ sudden_improvers' = improvers
             /\ past_base' = past
             /\ past_performance' = after
             /\ data' = SetColumn(
                          SetColumn(data, "subject_variation",
                                    [r \in 1..n |-> F(PopStd(subject_scores[r]))]),
                          "historical_trend",
                          [r \in 1..n |-> FSub(current[r], after[r])])
             /\ touched' = touched \cup
                             {<<"penalty", improvers[k]>> : k \in 1..Len(improvers)}
             /\ rng' = Advance(rng, us)
             /\ tape' = Recorded(rng, us)
  /\ columns' = AddCol(AddCol(columns, "subject_variation"), "historical_trend")
  /\ drawn' = drawn \o Drew("global", 118, Count(n_samples))
                       \o Drew("global", 123, Len(CheaterIndices(data)) - 1)
                       \o Drew("global", 125, ImproverCount(Len(CheaterIndices(data))))
  /\ pc' = "time"
  /\ UNCHANGED <<args, ctl, build, sizes, parts, i, subject_scores, skew,
                 peers, result, outcome>>

\* Line 130.
ExamTime ==
  /\ pc = "time"
  /\ \E us \in Vec(rng, Rep("noise", Count(n_samples))) :
       /\ time_base' = [r \in 1..Count(n_samples) |-> F(Normal(0, 100, us[r]))]
       /\ data' = SetColumn(data, "exam_time_std",
                            [r \in 1..Count(n_samples) |-> F(Normal(0, 100, us[r]))])
       /\ rng' = Advance(rng, us)
       /\ tape' = Recorded(rng, us)
  /\ columns' = AddCol(columns, "exam_time_std")
  /\ drawn' = drawn \o Drew("global", 130, Count(n_samples))
  /\ skew_draws' = <<>>
  /\ i' = 1
  /\ pc' = "skew"
  /\ UNCHANGED <<args, ctl, build, sizes, parts, history, peers, result,
                 outcome, touched>>

\* The fast branch without its minus sign.
SkewedTimeUnsigned(base, first_draw, second_draw, magnitude) ==
  IF first_draw < 40 THEN magnitude
  ELSE IF second_draw < 70 THEN magnitude
  ELSE base

\* The exam time of a cheater after lines 132-137: base is the value of
\* line 130, first and second the two np.random.random() values (second is
\* drawn only when first is not below 0.4) and magnitude the
\* np.random.uniform(1.5, 3) value of the branch taken.
SkewedTime(base, first_draw, second_draw, magnitude) ==
  IF first_draw < 40 THEN FNeg(magnitude)
  ELSE IF second_draw < 70 THEN magnitude
  ELSE base

\* One iteration of the loop of lines 131-137.
ExamTimeSkew ==
  /\ pc = "skew"
  /\ i <= Len(CheaterIndices(data))
  /\ LET row == CheaterIndices(data)[i]
     IN \E u1 \in Avail(rng, rng.pos + 1, "time1") :
          \E u2 \in Avail(rng, rng.pos + 2, IF Random(u1) < 40 THEN "magnitude" ELSE "time2") :
            \E u3 \in IF Random(u1) >= 40 /\ Random(u2) < 70
                      THEN Avail(rng, rng.pos + 3, "magnitude") ELSE {0} :
              LET us == IF Random(u1) < 40 THEN <<u1, u2>>
                        ELSE IF Random(u2) < 70 THEN <<u1, u2, u3>>
                        ELSE <<u1, u2>>
                  second_draw == IF Random(u1) < 40 THEN -1 ELSE Random(u2)
                  magnitude == IF Random(u1) < 40 THEN F(Uniform(150, 300, u2))
                               ELSE F(Uniform(150, 300, u3))
              IN /\ data' = SetCell(data, row, "exam_time_std",
                                    SkewedTime(data[row].exam_time_std, Random(u1),
                                               second_draw, magnitude))
                 /\ skew_draws' = Append(skew_draws,
                                         [row |-> row, first |-> Random(u1),
                                          second |-> second_draw])
                 /\ touched' = touched \cup {<<"skew", row>>}
                 /\ rng' = Advance(rng, us)
                 /\ tape' = Recorded(rng, us)
  /\ drawn' = drawn \o Drew("global", 131, 2)
  /\ i' = i + 1
  /\ UNCHANGED <<args, ctl, pc, build, sizes, parts, columns, history,
                 time_base, peers, result, outcome>>

\* The k-th smallest of the numbers vals, k in 1..Len(vals).
KthSmallest(vals, k) ==
  CHOOSE v \in {vals[j] : j \in 1..Len(vals)} :
    /\ Cardinality({j \in 1..Len(vals) : vals[j] < v}) < k
    /\ Cardinality({j \in 1..Len(vals) : vals[j] <= v}) >= k

\* 100 * np.percentile(vals, q): linear interpolation between the order
\* statistics around position q/100 * (n - 1).
Percentile100(vals, q) ==
  LET n == Len(vals)
      lo == (q * (n - 1)) \div 100
      rem == (q * (n - 1)) % 100
  IN IF rem = 0 THEN 100 * KthSmallest(vals, lo + 1)
     ELSE 100 * KthSmallest(vals, lo + 1)
            + rem * (KthSmallest(vals, lo + 2) - KthSmallest(vals, lo + 1))

\* np.digitize(x, bins) for increasing bins: the number of bins not above x.
Digitize(x, bins100) ==
  Cardinality({k \in 1..Len(bins100) : 100 * x >= bins100[k]})

\* Lines 140-141: the cut points of the ability tertiles and the group of
\* every row.
AbilityPercentiles(abilities) ==
  <<Percentile100([r \in 1..Len(abilities) |-> V(abilities[r])], 33),
    Percentile100([r \in 1..Len(abilities) |-> V(abilities[r])], 66)>>
AbilityGroups(abilities, ability_percentiles) ==
  [r \in 1..Len(abilities) |-> Digitize(V(abilities[r]), ability_percentiles)]

\* range(1, 4), the keys before the fix that line 143 records.
GroupKeysFromOne == 1..3

\* The keys of avg_group_exam, range(0, 3) in line 144.
GroupKeys == 0..2

\* Series.mean() of pandas: the mean of the cells that are not NaN, NaN when
\* there is none.
Numbers(cells) == SelectSeq(cells, LAMBDA c : ~IsNaN(c))
Mean(cells) ==
  LET nums == Numbers(cells)
  IN IF nums = <<>> THEN NaN
     ELSE F(Sum([j \in 1..Len(nums) |-> V(nums[j])]) \div Len(nums))

\* Line 144.
AvgGroupExam(groups, frame) ==
  [g \in GroupKeys |->
     Mean(SelectSeq([r \in 1..Len(frame) |->
                       IF groups[r] = g THEN frame[r].exam_raw ELSE NaN],
                    LAMBDA c : TRUE))]

\* Lines 140-150, when the loop of line 131 is over.
PeerComparison ==
  /\ pc = "skew"
  /\ i > Len(CheaterIndices(data))
  /\ \/ /\ data = <<>>        \* np.percentile of an empty array raises in
        /\ \E lib \in IF build.percentile = "unknown"  \* newer numpy and
                       THEN {"raises", "nan"}           \* returns NaN in older
                       ELSE {build.percentile} :
             /\ build' = [build EXCEPT !.percentile = lib]
             /\ IF lib = "raises"
                THEN /\ Raise("IndexError")
                     /\ UNCHANGED <<columns, peers>>
                ELSE /\ ability_groups' = <<>>
                     /\ avg_group_exam' = [g \in GroupKeys |-> NaN]
                     /\ columns' = AddCol(columns, "peer_comparison")
                     /\ pc' = "zscores"
                     /\ UNCHANGED outcome
        /\ UNCHANGED data
     \/ /\ data # <<>>
        /\ UNCHANGED build
        /\ ability_groups' = AbilityGroups(Column(data, "ability"),
                                           AbilityPercentiles(Column(data, "ability")))
        /\ avg_group_exam' = AvgGroupExam(ability_groups', data)
        /\ columns' = AddCol(columns, "peer_comparison")
        /\ IF \E r \in 1..Count(n_samples) :
                r > Len(data) \/ ability_groups'[r] \notin DOMAIN avg_group_exam'
           THEN /\ Raise("KeyError")
                /\ UNCHANGED data
           ELSE /\ data' = SetColumn(data, "peer_comparison",
                             [r \in 1..Len(data) |->
                                IF r <= Count(n_samples)
                                THEN FSub(data[r].exam_raw,
                                          avg_group_exam'[ability_groups'[r]])
                                ELSE F(0)])
                /\ pc' = "zscores"
                /\ UNCHANGED outcome
  /\ UNCHANGED <<args, ctl, rng, tape, sizes, parts, i, history,
                 skew, result, touched, drawn>>

\* (x - column.mean()) / column.std() of pandas, in hundredths: mean and
\* std (n - 1 in the denominator) skip NaN cells; std of fewer than two
\* numbers is NaN, and 0/0 is NaN.
\* For a column of n numbers of sum S: n, S and the root of the sum of the
\* squares of n * x - S.
Spread(nums, n, S) ==
  ISqrt(Sum([j \in 1..n |-> (n * V(nums[j]) - S) * (n * V(nums[j]) - S)]))
Moments(nums) ==
  [n |-> Len(nums),
   S |-> Sum([j \in 1..Len(nums) |-> V(nums[j])]),
   root |-> Spread(nums, Len(nums), Sum([j \in 1..Len(nums) |-> V(nums[j])]))]
ZScore(x, m) ==
  IF IsNaN(x) \/ m.n < 2 \/ m.root = 0 THEN NaN
  ELSE F(((m.n * V(x) - m.S) * ISqrt(10000 * (m.n - 1))) \div m.root)
ZColumn(cells, m) == [r \in 1..Len(cells) |-> ZScore(cells[r], m)]
ZDiff(cz, ez) == [r \in 1..Len(cz) |-> FSub(cz[r], ez[r])]
ZFrame(frame, cz, ez) ==
  SetColumn(SetColumn(SetColumn(frame, "coursework_z", cz), "exam_z", ez),
            "z_diff", ZDiff(cz, ez))

\* Lines 153-155.
ZScores ==
  /\ pc = "zscores"
  /\ data' = ZFrame(data,
                     ZColumn(Column(data, "coursework_raw"),
                             Moments(Numbers(Column(data, "coursework_raw")))),
                     ZColumn(Column(data, "exam_raw"),
                             Moments(Numbers(Column(data, "exam_raw")))))
  /\ columns' = AddCol(AddCol(AddCol(columns, "coursework_z"), "exam_z"), "z_diff")
  /\ i' = 1
  /\ pc' = "score"
  /\ UNCHANGED <<args, ctl, rng, tape, build, sizes, parts, history, skew,
                 peers, result, outcome, touched, drawn>>

\* The 8 assessments of one student, lines 159-166.
Assessments(row, us) ==
  IF row.cheater = F(1)
  THEN IF Random(us[1]) < 70
       THEN [j \in 1..8 |-> V(row.ability) + Normal(120, 30, us[j + 1])]
       ELSE [j \in 1..8 |-> V(row.ability) + Normal(0, 100, us[j + 1])]
  ELSE [j \in 1..8 |-> V(row.ability) + Normal(0, 100, us[j])]

\* One iteration of the loop of lines 158-168.
ScoreRow ==
  /\ pc = "score"
  /\ i <= Count(n_samples)
  /\ IF i > Len(data)
     THEN /\ Raise("KeyError")
          /\ UNCHANGED <<rng, tape, data, columns, i, drawn>>
     ELSE /\ \E us \in Vec(rng, IF data[i].cheater = F(1)
                                THEN <<"flag">> \o Rep("assessment", 8)
                                ELSE Rep("assessment", 8)) :
               /\ data' = SetCell(data, i, "score_variance",
                                  F(PopStd(Assessments(data[i], us))))
               /\ rng' = Advance(rng, us)
               /\ tape' = Recorded(rng, us)
          /\ columns' = AddCol(columns, "score_variance")
          /\ drawn' = drawn \o Drew("global", 158, 8)
          /\ i' = i + 1
          /\ UNCHANGED <<pc, outcome>>
  /\ UNCHANGED <<args, ctl, build, sizes, parts, history, skew, peers,
                 result, touched>>

\* Lines 171-172.
features_for_anomaly ==
  <<"coursework_z", "exam_z", "z_diff", "score_variance",
    "subject_variation", "historical_trend">>

HasNaN(frame, cols) ==
  \E r \in 1..Len(frame) : \E k \in 1..Len(cols) : IsNaN(frame[r][cols[k]])

\* The detection step with its failures swallowed.
DetectionSwallowed(frame, cols, det) == "none"

\* What data[features_for_anomaly] and IsolationForest.fit_predict raise,
\* lines 174-175: a missing column is a KeyError, an empty frame a
\* ValueError, and NaN input a ValueError where the installed scikit-learn
\* checks the input to be finite.
DetectionError(frame, cols, det) ==
  IF ~(ColSet(features_for_anomaly) \subseteq ColSet(cols)) THEN "KeyError"
  ELSE IF frame = <<>> THEN "ValueError"
  ELSE IF HasNaN(frame, features_for_anomaly) /\ det = "rejects_nan" THEN "ValueError"
  ELSE "none"

\* The isolation score of a row (the lower, the more anomalous): how far
\* the row lies from the bulk, and the random splits of the forest.
Magnitude(c) == IF IsNaN(c) THEN 0 ELSE Abs(V(c))
IsolationScore(row, u) ==
  0 - Magnitude(row.coursework_z) - Magnitude(row.exam_z) - Magnitude(row.z_diff)
    - Magnitude(row.historical_trend) - u \div 10

\* fit_predict with contamination=0.2: -1 for the rows whose score is below
\* the 20th percentile of the scores, 1 for the others.
Predict(scores, offset100) ==
  [r \in 1..Len(scores) |-> IF 100 * scores[r] < offset100 THEN -1 ELSE 1]
Scores(frame, us) ==
  [r \in 1..Len(frame) |-> IsolationScore(frame[r], us[r])]
FitPredict(frame, us) ==
  Predict(Scores(frame, us), Percentile100(Scores(frame, us), 20))

\* IsolationForest(random_state=42): its own generator, seeded with 42.
ForestState == [stream |-> "s42", pos |-> 0]

\* Lines 171-176, when the loop of line 158 is over.
Detect ==
  /\ pc = "score"
  /\ i > Count(n_samples)
  /\ \E det \in IF build.forest = "unknown" /\ ColSet(features_for_anomaly) \subseteq ColSet(columns)
                     /\ HasNaN(data, features_for_anomaly)
                THEN {"rejects_nan", "accepts_nan"} ELSE {build.forest} :
       /\ build' = [build EXCEPT !.forest = det]
       /\ IF DetectionError(data, columns, det) # "none"
          THEN /\ Raise(DetectionError(data, columns, det))
               /\ UNCHANGED <<tape, data, columns, anomaly_scores, drawn>>
          ELSE /\ \E us \in Vec(ForestState, Rep("forest", Len(data))) :
                    /\ anomaly_scores' = FitPredict(data, us)
                    /\ data' = SetColumn(data, "anomaly_score",
                                 [r \in 1..Len(data) |-> F(anomaly_scores'[r])])
                    /\ tape' = Recorded(ForestState, us)
               /\ columns' = AddCol(columns, "anomaly_score")
               /\ drawn' = drawn \o Drew("forest", 175, Len(data))
               /\ pc' = "finish"
               /\ UNCHANGED outcome
  /\ UNCHANGED <<args, ctl, rng, sizes, parts, i, history, skew, peers,
                 final_data, final_cols, touched>>

\* The prediction kept as it is: line 179 left out.
AnomalyKept(c) == c

\* (data['anomaly_score'] == -1).astype(float), line 179.
AnomalyFlag(c) == IF c = F(-1) THEN F(100) ELSE F(0)

\* The drop list without exam_raw.
DroppedTwo == {"ability", "coursework_raw"}

\* data.drop(names, axis=1), line 182.
Dropped == {"ability", "coursework_raw", "exam_raw"}
DropRows(frame, names) ==
  [r \in 1..Len(frame) |-> [c \in DOMAIN frame[r] \ names |-> frame[r][c]]]
DropCols(cols, names) == SelectSeq(cols, LAMBDA c : c \notin names)

\* Lines 179-184.
Finish ==
  /\ pc = "finish"
  /\ data' = SetColumn(data, "anomaly_score",
                       [r \in 1..Len(data) |-> AnomalyFlag(data[r].anomaly_score)])
  /\ IF ~(Dropped \subseteq ColSet(columns))
     THEN /\ Raise("KeyError")
          /\ UNCHANGED <<final_data, final_cols>>
     ELSE /\ final_data' = DropRows(data', Dropped)
          /\ final_cols' = DropCols(columns, Dropped)
          /\ outcome' = "returned"
          /\ pc' = "done"
  /\ UNCHANGED <<args, ctl, rng, tape, build, sizes, parts, columns, i,
                 history, skew, peers, anomaly_scores, touched, drawn>>

----------------------------------------------------------------------------
\* A second call of the function in the same process

\* Other code of the process draws from the process-wide stream between
\* the two calls.
OtherDraw ==
  /\ pc = "seed"
  /\ run = "second"
  /\ other < MaxOtherDraws
  /\ \E u \in Avail(rng, rng.pos + 1, "other") :
       /\ rng' = Advance(rng, <<u>>)
       /\ tape' = Recorded(rng, <<u>>)
  /\ other' = other + 1
  /\ UNCHANGED <<args, pc, run, first, build, locals, outcome, touched, drawn>>

CallAgain ==
  /\ pc = "done"
  /\ run = "first"
  /\ first' = [outcome |-> outcome, table |-> final_data, cols |-> final_cols]
  /\ run' = "second"
  /\ pc' = "seed"
  /\ outcome' = "running"
  /\ touched' = {}
  /\ drawn' = <<>>
  /\ n_cheaters' = 0 /\ n_non_cheaters' = IntN(0)
  /\ non_cheaters' = <<>> /\ cheaters' = <<>> /\ cheaters_cols' = <<>>
  /\ cheater_types' = <<>>
  /\ data' = <<>> /\ columns' = <<>> /\ i' = 0
  /\ subject_scores' = <<>> /\ past_performance' = <<>> /\ past_base' = <<>>
  /\ sudden_improvers' = <<>> /\ time_base' = <<>> /\ skew_draws' = <<>>
  /\ ability_groups' = <<>> /\ avg_group_exam' = <<>>
  /\ anomaly_scores' = <<>> /\ final_data' = <<>> /\ final_cols' = <<>>
  /\ UNCHANGED <<args, rng, tape, build, other>>

----------------------------------------------------------------------------

Next ==
  \/ Seed
  \/ Split
  \/ GenNonCheaters
  \/ GenCheaters
  \/ AssignTypes
  \/ ApplyPattern
  \/ Combine
  \/ SubjectRow
  \/ History
  \/ ExamTime
  \/ ExamTimeSkew
  \/ PeerComparison
  \/ ZScores
  \/ ScoreRow
  \/ Detect
  \/ Finish

Spec == Init /\ [][Next]_vars

NextRerun ==
  \/ Next
  \/ OtherDraw
  \/ CallAgain

SpecRerun == Init /\ [][NextRerun]_vars

----------------------------------------------------------------------------
\* The call over a stream known in advance

\* The seed-42 stream as far as a call with n rows, c of them cheaters,
\* reads it: fixed values up to the draws of line 118, then the c - 1
\* values of the shuffle of line 123 and the penalties of line 125, which
\* vary, then fixed values again.  No value of the head is 0.8 or more, so
\* no cheater is `consistent` and each takes 2 draws in the loop of line 77:
\* lines 49-113 read 8 values per non-cheater and 11 per cheater.
StreamValue(p) == 30 + ((7 * p) % 40)
StreamHead(n, c) == [p \in 1..(8 * (n - c) + 11 * c + n) |-> StreamValue(p)]
StreamTail(n) == [p \in 1..(13 * n) |-> 50]
ImproverStreams(n, c) ==
  {StreamHead(n, c) \o sh \o pen \o StreamTail(n) :
     sh \in [1..Max(c - 1, 0) -> {10, 50, 90}],
     pen \in [1..ImproverCount(c) -> {0, 99}]}

InitImprovers ==
  /\ n_samples \in {IntN(v) : v \in 1..MaxImproverSamples}
  /\ cheater_ratio \in 0..RatioDen
  /\ tape \in ImproverStreams(Count(n_samples), NCheaters(n_samples, cheater_ratio))
  /\ pc = "seed" /\ run = "first"
  /\ rng = [stream |-> "os", pos |-> 0]
  /\ other = 0
  /\ build = [forest |-> "unknown", percentile |-> "unknown"]
  /\ Fresh
  /\ outcome = "running" /\ touched = {} /\ drawn = <<>>
  /\ first = [outcome |-> "none", table |-> <<>>, cols |-> <<>>]

SpecImprovers == InitImprovers /\ [][Next]_vars

\* The seed-42 stream as far as a call with n rows, c of them cheaters,
\* reads it: fixed values for lines 49-65 (3 per non-cheater, 2 per
\* cheater), then the c values of line 73 and the values of the loop of
\* line 77, which vary, then fixed values again.
RECURSIVE PatternDraws(_)
PatternDraws(types) ==
  IF types = <<>> THEN {<<>>}
  ELSE {h \o t : h \in [1..Len(PatternSites(ChoiceType(Head(types)))) -> {5, 95}],
                  t \in PatternDraws(Tail(types))}
PatternStreams(n, c) ==
  UNION {{[p \in 1..(3 * (n - c) + 2 * c) |-> StreamValue(p)] \o types \o pat
            \o [p \in 1..(24 * n) |-> 50] : pat \in PatternDraws(types)} :
         types \in [1..c -> {25, 65, 90}]}

InitPatterns ==
  /\ n_samples \in {IntN(v) : v \in 1..MaxPatternSamples}
  /\ cheater_ratio \in 0..RatioDen
  /\ tape \in PatternStreams(Count(n_samples), NCheaters(n_samples, cheater_ratio))
  /\ pc = "seed" /\ run = "first"
  /\ rng = [stream |-> "os", pos |-> 0]
  /\ other = 0
  /\ build = [forest |-> "unknown", percentile |-> "unknown"]
  /\ Fresh
  /\ outcome = "running" /\ touched = {} /\ drawn = <<>>
  /\ first = [outcome |-> "none", table |-> <<>>, cols |-> <<>>]

SpecPatterns == InitPatterns /\ [][Next]_vars
----------------------------------------------------------------------------
\* The claims

InvalidSamples == n_samples.type = "float" \/ n_samples.twice <= 0
IsError(o) == o \notin {"running", "returned"}
Returned == outcome = "returned"
CountLabel(frame, label) ==
  Cardinality({r \in 1..Len(frame) : frame[r].cheater = F(label)})
OutputColumns ==
  {"cheater", "subject_variation", "historical_trend", "exam_time_std",
   "peer_comparison", "coursework_z", "exam_z", "z_diff", "score_variance",
   "anomaly_score"}

\* C1: for fixed n_samples and cheater_ratio, the second call of the
\* function ends as the first did (the same table, or the same error),
\* whatever other code drew from the process-wide stream in between.
Thm_C1_Determinism ==
  (run = "second" /\ pc = "done") =>
    first = [outcome |-> outcome, table |-> final_data, cols |-> final_cols]
Wit_C1_Determinism ==
  /\ run = "second" /\ pc = "done" /\ Returned
  /\ other > 0
  /\ CountLabel(final_data, 1) > 0 /\ CountLabel(final_data, 0) > 0

\* C2 as claimed: the returned table of a valid call has exactly
\* round(n_samples * cheater_ratio) rows with cheater == 1, the others have
\* cheater == 0.
CE_C2_RoundedCount ==
  (Returned /\ ValidInput) =>
    /\ CountLabel(final_data, 1) = PyRound(Count(n_samples) * cheater_ratio, RatioDen)
    /\ CountLabel(final_data, 0) = Len(final_data) - CountLabel(final_data, 1)
\* C2 as amended: the returned table of a valid call has exactly
\* int(n_samples * cheater_ratio) rows with cheater == 1 (the product cut
\* to its integer part), the others have cheater == 0.
Thm_C2_TruncatedCount ==
  (Returned /\ ValidInput) =>
    /\ CountLabel(final_data, 1) = (Count(n_samples) * cheater_ratio) \div RatioDen
    /\ CountLabel(final_data, 0) = Len(final_data) - CountLabel(final_data, 1)
Wit_C2_TruncatedCount ==
  /\ Returned /\ ValidInput
  /\ (Count(n_samples) * cheater_ratio) % RatioDen # 0
  /\ CountLabel(final_data, 1) = 1
  /\ CountLabel(final_data, 0) = 1

\* C3: the returned table of a valid call has exactly n_samples rows and
\* exactly the 10 output columns; ability, coursework_raw and exam_raw are
\* not among them.
Thm_C3_Shape ==
  (Returned /\ ValidInput) =>
    /\ Len(final_data) = Count(n_samples)
    /\ Len(final_cols) = 10
    /\ ColSet(final_cols) = OutputColumns
    /\ \A r \in 1..Len(final_data) : DOMAIN final_data[r] = OutputColumns
Wit_C3_Shape ==
  /\ Returned /\ ValidInput
  /\ Len(final_data) = MaxSamples
  /\ CountLabel(final_data, 1) > 0

\* C4 as claimed: no cell of the returned table of a valid call is null.
CE_C4_NoNull ==
  (Returned /\ ValidInput) =>
    \A r \in 1..Len(final_data) : \A c \in DOMAIN final_data[r] :
      ~IsNaN(final_data[r][c])

CE_C6_RatioRejected ==
  (cheater_ratio < 0 \/ cheater_ratio > RatioDen) => ~Returned

\* C7 as claimed: a valid call whose computed number of cheaters is 0
\* executes no cheater-only statement for any row, and ends by returning
\* n_samples rows that all have cheater == 0.
CE_C7_NoCheaters ==
  (ValidInput /\ pc \notin {"seed", "split"} /\ n_cheaters = 0) =>
    /\ touched = {}
    /\ pc = "done" =>
         /\ Returned
         /\ Len(final_data) = Count(n_samples)
         /\ CountLabel(final_data, 0) = Len(final_data)

\* C8: with cheater_ratio = 1.0 every row is a cheater, and once the
\* peer-comparison step is over every row has one of the 3 ability groups,
\* the mean exam_raw of its group is a number (the group is not empty), and
\* its peer_comparison is a number.
Thm_C8_PeerGroups ==
  (ValidInput /\ cheater_ratio = RatioDen
     /\ pc \in {"zscores", "score", "finish", "done"}) =>
    \A r \in 1..Count(n_samples) :
      /\ r <= Len(data) /\ data[r].cheater = F(1)
      /\ r <= Len(ability_groups)
      /\ ability_groups[r] \in 0..2
      /\ ability_groups[r] \in DOMAIN avg_group_exam
      /\ {q \in 1..Len(data) : ability_groups[q] = ability_groups[r]} # {}
      /\ ~IsNaN(avg_group_exam[ability_groups[r]])
      /\ "peer_comparison" \in DOMAIN data[r]
      /\ ~IsNaN(data[r].peer_comparison)
Wit_C8_PeerGroups ==
  /\ ValidInput /\ cheater_ratio = RatioDen /\ Returned
  /\ Count(n_samples) = MaxSamples
  /\ Cardinality({ability_groups[r] : r \in 1..Len(ability_groups)}) > 1
  /\ \E g \in DOMAIN avg_group_exam : IsNaN(avg_group_exam[g])

\* C9: in every returned table anomaly_score is 0.0 or 1.0 in every row,
\* and it is 1.0 exactly in the rows the detector predicted as -1.
Thm_C9_AnomalyFlag ==
  Returned =>
    \A r \in 1..Len(final_data) :
      /\ final_data[r].anomaly_score \in {F(0), F(100)}
      /\ final_data[r].anomaly_score = F(100) <=> anomaly_scores[r] = -1
Wit_C9_AnomalyFlag ==
  /\ Returned
  /\ \E r \in 1..Len(final_data) :
       anomaly_scores[r] = -1 /\ final_data[r].anomaly_score = F(100)
  /\ \E r \in 1..Len(final_data) :
       anomaly_scores[r] = 1 /\ final_data[r].anomaly_score = F(0)

\* The exam time of row r is as the skew loop leaves it when the second
\* draw replaces it below `limit` (in hundredths).
SkewAsStated(r, limit) ==
  IF \E k \in 1..Len(skew_draws) : skew_draws[k].row = r
  THEN LET d == skew_draws[CHOOSE k \in 1..Len(skew_draws) : skew_draws[k].row = r]
           t == data[r].exam_time_std
       IN IF d.first < 40 THEN ~IsNaN(t) /\ V(t) >= -300 /\ V(t) <= -150
          ELSE IF d.second < limit THEN ~IsNaN(t) /\ V(t) >= 150 /\ V(t) <= 300
          ELSE t = time_base[r]
  ELSE data[r].exam_time_std = time_base[r]

\* C10 as claimed: a cheater's exam_time_std becomes a value in [-3, -1.5]
\* when the first draw is below 0.4, else a value in [1.5, 3] when the
\* deciding draw is below 0.3, else it keeps its standard-normal value; the
\* rows the loop has not visited, the non-cheaters among them, keep theirs.
CE_C10_SkewBelow30 ==
  \A r \in 1..Len(time_base) : SkewAsStated(r, 30)
\* C10 as amended: the same with the deciding (second) draw compared to
\* 0.7, as line 135 does.
Thm_C10_SkewBelow70 ==
  \A r \in 1..Len(time_base) : SkewAsStated(r, 70)
Wit_C10_SkewBelow70 ==
  /\ Returned
  /\ \E k \in 1..Len(skew_draws) :
       /\ skew_draws[k].first >= 40
       /\ skew_draws[k].second >= 30 /\ skew_draws[k].second < 70
       /\ V(data[skew_draws[k].row].exam_time_std) >= 150
  /\ \E k \in 1..Len(skew_draws) :
       /\ skew_draws[k].first >= 40 /\ skew_draws[k].second >= 70
       /\ data[skew_draws[k].row].exam_time_std = time_base[skew_draws[k].row]
\* C11: once line 127 is done, sudden_improvers holds int(0.6 * c) of the
\* c cheater rows, pairwise distinct and all with cheater == 1; the past
\* performance of each of them is what line 118 computed minus one penalty
\* in [0.5, 1.5], and that of every other row, non-cheater or cheater, is
\* what line 118 computed.
HistoryDone == "historical_trend" \in ColSet(columns)
ImproverSet == {sudden_improvers[k] : k \in 1..Len(sudden_improvers)}
Thm_C11_Improvers ==
  HistoryDone =>
    /\ Len(sudden_improvers) = ImproverCount(CountLabel(data, 1))
    /\ \A a, b \in 1..Len(sudden_improvers) :
         a # b => sudden_improvers[a] # sudden_improvers[b]
    /\ \A r \in ImproverSet : r \in 1..Len(data) /\ data[r].cheater = F(1)
    /\ Len(past_base) = Count(n_samples)
    /\ Len(past_performance) = Count(n_samples)
    /\ \A r \in 1..Len(past_base) :
         IF r \in ImproverSet
         THEN /\ V(past_base[r]) - V(past_performance[r]) >= 50
              /\ V(past_base[r]) - V(past_performance[r]) <= 150
         ELSE past_performance[r] = past_base[r]
    /\ \A r \in 1..Len(past_base) :
         data[r].historical_trend =
           FSub(FHalf(FAdd(data[r].coursework_raw, data[r].exam_raw)),
                past_performance[r])
Wit_C11_Improvers ==
  /\ HistoryDone /\ pc = "time"
  /\ Len(sudden_improvers) = 2
  /\ sudden_improvers[1] > sudden_improvers[2]
  /\ CountLabel(data, 1) > 2
  /\ V(past_base[sudden_improvers[1]]) - V(past_performance[sudden_improvers[1]])
       # V(past_base[sudden_improvers[2]]) - V(past_performance[sudden_improvers[2]])
\* The step of the algorithm a draw of source line `line` belongs to:
\* ability 2, coursework and exam noise 3, cheating patterns 4, subject
\* scores 5, past performance 6, exam time 7, assessments 10, detector 11.
StepOfLine(line) ==
  CASE line \in {49, 60} -> 2
    [] line \in {54, 55, 65} -> 3
    [] line \in {73, 77} -> 4
    [] line = 103 -> 5
    [] line \in {118, 123, 125} -> 6
    [] line \in {130, 131} -> 7
    [] line = 158 -> 10
    [] OTHER -> 11

\* C12 as claimed: every draw is made from the one seeded stream, and no
\* draw of a later step of the algorithm is made before a draw of an
\* earlier step.
CE_C12_StepOrder ==
  /\ \A a \in 1..Len(drawn) : drawn[a][1] = "global"
  /\ \A a, b \in 1..Len(drawn) :
       a < b => StepOfLine(drawn[a][2]) <= StepOfLine(drawn[b][2])
\* C12 as amended: the draws are made in the order of the source lines,
\* which puts the coursework and exam noise of the non-cheaters (lines
\* 54-55) before the ability of the cheaters (line 60); all of them come
\* from the process-wide stream after it was seeded with 42, except those
\* of the detector (line 175), which come last and from a generator of the
\* detector's own, seeded with 42 as well.
Thm_C12_SourceOrder ==
  /\ \A a, b \in 1..Len(drawn) : a < b => drawn[a][2] <= drawn[b][2]
  /\ \A a \in 1..Len(drawn) :
       /\ drawn[a][1] = (IF drawn[a][2] = 175 THEN "forest" ELSE "global")
       /\ drawn[a][1] = "forest" => ForestState = SeededState
  /\ drawn # <<>> => rng.stream = "s42"
Wit_C12_SourceOrder ==
  /\ Returned
  /\ \E a, b \in 1..Len(drawn) : a < b /\ drawn[a][2] = 55 /\ drawn[b][2] = 60
  /\ drawn[Len(drawn)] = <<"forest", 175>>
  /\ {drawn[a][2] : a \in 1..Len(drawn)} =
       {49, 54, 55, 60, 65, 73, 77, 103, 118, 130, 131, 158, 175}
\* C13: every cheater has exactly one of the three variants and no
\* non-cheater has any (its raw scores stay those of lines 54-55); an
\* iteration of the loop of line 77 gives its cheater, and no other row,
\* coursework_raw = ability + offset in [1.0, 2.5] and exam_raw = ability +
\* noise (coursework_advantage), coursework_raw = ability + noise and
\* exam_raw = ability + offset in [1.5, 3.0] (exam_advantage), or both raw
\* scores = ability + one offset in [1.0, 2.0] + noise of their own
\* (consistent).
Variants == {"coursework_advantage", "exam_advantage", "consistent"}
VariantsAssigned ==
  data # <<>> =>
    /\ Len(cheater_types) = CountLabel(data, 1)
    /\ \A j \in 1..Len(cheater_types) :
         /\ cheater_types[j] \in Variants
         /\ data[Len(non_cheaters) + j].cheater = F(1)
         /\ <<"pattern", j>> \in touched
    /\ Cardinality({t \in touched : t[1] = "pattern"}) = Len(cheater_types)
    /\ \A r \in 1..Len(data) :
         data[r].cheater = F(0) =>
           /\ r <= Len(non_cheaters)
           /\ data[r].coursework_raw = non_cheaters[r].coursework_raw
           /\ data[r].exam_raw = non_cheaters[r].exam_raw
PatternAsStated ==
  LET us == SubSeq(tape', rng.pos + 1, rng'.pos)
      ability == V(cheaters[i].ability)
      coursework == V(cheaters'[i].coursework_raw) - ability
      exam == V(cheaters'[i].exam_raw) - ability
  IN /\ cheaters[i].cheater = F(1)
     /\ non_cheaters' = non_cheaters
     /\ \A r \in 1..Len(cheaters) :
          r # i => \A c \in DOMAIN cheaters[r] : cheaters'[r][c] = cheaters[r][c]
     /\ cheaters'[i].ability = cheaters[i].ability
     /\ CASE cheater_types[i] = "coursework_advantage" ->
               /\ Len(us) = 2
               /\ coursework = Uniform(100, 250, us[1])
               /\ coursework >= 100 /\ coursework <= 250
               /\ exam = Normal(0, 80, us[2])
          [] cheater_types[i] = "exam_advantage" ->
               /\ Len(us) = 2
               /\ coursework = Normal(0, 80, us[1])
               /\ exam = Uniform(150, 300, us[2])
               /\ exam >= 150 /\ exam <= 300
          [] cheater_types[i] = "consistent" ->
               /\ Len(us) = 3
               /\ Uniform(100, 200, us[1]) >= 100 /\ Uniform(100, 200, us[1]) <= 200
               /\ coursework = Uniform(100, 200, us[1]) + Normal(0, 20, us[2])
               /\ exam = Uniform(100, 200, us[1]) + Normal(0, 20, us[3])
Thm_C13_Patterns ==
  /\ []VariantsAssigned
  /\ [][(pc = "pattern" /\ i <= Len(cheater_types)) => PatternAsStated]_vars
Wit_C13_Patterns ==
  /\ Returned
  /\ CountLabel(data, 0) = 1
  /\ \E j \in 1..Len(cheater_types) :
       /\ cheater_types[j] = "consistent"
       /\ data[Len(non_cheaters) + j].coursework_raw
            # data[Len(non_cheaters) + j].exam_raw
====
